---- MODULE Spec2Model ----
(***************************************************************************)
(* Traced chatbot (demo-langfuse-tracing.py): process start-up, the /chat  *)
(* handler with its two helpers call_openai and process_response, and the  *)
(* shared Langfuse client whose event queue every handler appends to.      *)
(*                                                                         *)
(* The OpenAI and Langfuse SDKs are external libraries.  They are modelled *)
(* by the contract the handler relies on:                                  *)
(*   - OpenAI(api_key=None) raises OpenAIError when OPENAI_API_KEY is not  *)
(*     in the environment (an empty string is accepted);                   *)
(*   - chat.completions.create either returns a response or raises;        *)
(*   - every Langfuse call (trace, generation, span, end, update) appends  *)
(*     one event to the client's thread-safe queue and returns; a          *)
(*     background consumer takes events off the queue and uploads them,    *)
(*     an upload may fail and the event is then dropped inside the SDK;    *)
(*   - flush() blocks until the queue has been drained.                    *)
(* datetime.now() (metadata "timestamp", line 102) is a wall-clock reading *)
(* no handler ever reads back; it is left out of the trace metadata.       *)
(***************************************************************************)
EXTENDS Integers, Sequences, FiniteSets, TLC

\* ---------------------------------------------------------------- bounds
MaxRequests == 2
MaxQueue == 2

\* ------------------------------------------------------ program constants
MaxTokens == 500
TemperatureTenths == 7

None == "None"
DefaultHost == "http://localhost:3000"
DefaultUser == "anonymous"

RequiredKeys == {"OPENAI_API_KEY", "LANGFUSE_PUBLIC_KEY", "LANGFUSE_SECRET_KEY"}
EnvNames == RequiredKeys \cup {"LANGFUSE_HOST"}

\* What the environment may hold after load_dotenv(): a required key is
\* unset, empty or set; LANGFUSE_HOST is left unset, so the default applies.
EnvValues(k) ==
    IF k = "LANGFUSE_HOST" THEN {None}
    ELSE {None, "", "key"}

\* The request bodies POST /chat is driven with (user_id defaults to
\* "anonymous" when the body leaves it out).
ChatRequests ==
    { [message |-> "What is AI?", user_id |-> "demo"],
      [message |-> "Hi", user_id |-> DefaultUser] }

\* The responses chat.completions.create can return: one whose total is the
\* sum of its parts and one whose total is not.
ApiResponses ==
    { [content |-> "AI is...", model |-> "gpt-3.5-turbo-0125",
       usage |-> [prompt_tokens |-> 20, completion_tokens |-> 15, total_tokens |-> 35]],
      [content |-> "AI is...", model |-> "gpt-3.5-turbo-0125",
       usage |-> [prompt_tokens |-> 20, completion_tokens |-> 15, total_tokens |-> 36]] }

Reqs == 1..MaxRequests
TraceIds == 1..MaxRequests

VARIABLES
    env,            \* os.environ after load_dotenv()
    proc,           \* position of the process: import, main, crashed, exited, serving
    printed,        \* names of missing variables printed by the start-up check
    exitCode,       \* exit status of the process, -1 while it runs
    listening,      \* uvicorn has bound 0.0.0.0:8000
    nextUuid,       \* source of uuid.uuid4(): the next unused identifier
    pc,             \* position of each request's handler
    request,        \* the ChatRequest of each handler
    trace_id,       \* local trace_id of each handler (0 before line 92)
    completion,     \* what chat.completions.create returned (call_openai's response)
    llm_response,   \* what call_openai returned to chat
    final_response, \* what process_response returned to chat
    response,       \* the HTTP response of each request
    hist,           \* per request, the steps its handler has taken, in order
    queue,          \* the Langfuse client's event queue (shared)
    taken,          \* per trace id, the events the consumer took off the queue
    uploadFailed    \* whether an upload has failed (the SDK logs it and goes on)

vars == <<env, proc, printed, exitCode, listening, nextUuid, pc, request, trace_id,
          completion, llm_response, final_response, response, hist, queue, taken, uploadFailed>>

procVars == <<env, proc, printed, exitCode, listening>>
reqVars == <<nextUuid, pc, request, trace_id, completion, llm_response, final_response, response, hist>>
sinkVars == <<queue, taken, uploadFailed>>

\* os.getenv(name, default)
getenv(name, default) == IF env[name] = None THEN default ELSE env[name]

\* `not value` for the value of an environment variable
Falsy(v) == v = None \/ v = ""

Init ==
    /\ env \in {e \in [EnvNames -> {None, "", "key"}] :
                  \A k \in EnvNames : e[k] \in EnvValues(k)}
    /\ proc = "import"
    /\ printed = {}
    /\ exitCode = -1
    /\ listening = FALSE
    /\ nextUuid = 1
    /\ pc = [r \in Reqs |-> "idle"]
    /\ request = [r \in Reqs |-> None]
    /\ trace_id = [r \in Reqs |-> 0]
    /\ completion = [r \in Reqs |-> None]
    /\ llm_response = [r \in Reqs |-> None]
    /\ final_response = [r \in Reqs |-> None]
    /\ response = [r \in Reqs |-> None]
    /\ hist = [r \in Reqs |-> <<>>]
    /\ queue = <<>>
    /\ taken = [t \in TraceIds |-> <<>>]
    /\ uploadFailed = FALSE

\* ------------------------------------------------------------- start-up

\* Lines 33-53: module-level construction of the two clients.
ModuleInit ==
    /\ proc = "import"
    /\ IF env["OPENAI_API_KEY"] = None
       THEN /\ proc' = "crashed"
            /\ exitCode' = 1
       ELSE /\ proc' = "main"
            /\ UNCHANGED exitCode
    /\ UNCHANGED <<env, printed, listening>>
    /\ UNCHANGED reqVars
    /\ UNCHANGED sinkVars

\* Lines 311: the required keys whose value is falsy.
missing == {k \in RequiredKeys : Falsy(env[k])}

\* Lines 297-333: the start-up check, then uvicorn.run.
Main ==
    /\ proc = "main"
    /\ IF missing # {}
       THEN /\ printed' = missing
            /\ exitCode' = 1
            /\ proc' = "exited"
            /\ UNCHANGED listening
       ELSE /\ listening' = TRUE
            /\ proc' = "serving"
            /\ UNCHANGED <<printed, exitCode>>
    /\ UNCHANGED env
    /\ UNCHANGED reqVars
    /\ UNCHANGED sinkVars

\* ------------------------------------------------- the Langfuse client

\* A queue whose append is not atomic: an append racing with another event
\* still in the queue overwrites it.
EnqueueRacy(ev) ==
    /\ Len(queue) < MaxQueue
    /\ queue' = IF queue = <<>> THEN <<ev>> ELSE [queue EXCEPT ![Len(queue)] = ev]

\* One SDK call: the event is appended to the client's queue.  Queues of at
\* most MaxQueue events are explored: a handler's call waits for the consumer
\* when that many events are pending.
Enqueue(ev) ==
    /\ Len(queue) < MaxQueue
    /\ queue' = Append(queue, ev)

\* The background consumer takes the oldest event and uploads it; the upload
\* succeeds or fails, and a failure stays inside the SDK.
Consume ==
    /\ queue # <<>>
    /\ taken' = [taken EXCEPT ![Head(queue).trace_id] = Append(@, Head(queue))]
    /\ \E ok \in BOOLEAN : uploadFailed' = (uploadFailed \/ ~ok)
    /\ queue' = Tail(queue)
    /\ UNCHANGED procVars
    /\ UNCHANGED reqVars

\* ------------------------------------------------------------ POST /chat

\* Line 139: the trace URL.
TraceUrl(id) == <<getenv("LANGFUSE_HOST", DefaultHost), "/trace/", id>>

\* Lines 96-106: the event that opens the trace.
TraceEvent(id, body) ==
    [type |-> "trace-create",
     trace_id |-> id,
     name |-> "chat_conversation",
     user_id |-> body.user_id,
     input |-> [message |-> body.message],
     metadata |-> [message_length |-> Len(body.message)],
     tags |-> {"chatbot", "gpt-3.5"}]

\* Lines 79-115, 165-183: a request arrives; chat() draws its trace id, opens
\* the trace and enters call_openai, which sends the completion request and
\* blocks.  Handlers are numbered in the order their requests arrive.
chat_begin(r) ==
    /\ listening
    /\ pc[r] = "idle"
    /\ \A q \in Reqs : q < r => pc[q] # "idle"
    /\ \E body \in ChatRequests :
         /\ request' = [request EXCEPT ![r] = body]
         /\ Enqueue(TraceEvent(nextUuid, body))
    /\ trace_id' = [trace_id EXCEPT ![r] = nextUuid]
    /\ nextUuid' = nextUuid + 1
    /\ hist' = [hist EXCEPT ![r] = @ \o <<"trace", "call">>]
    /\ pc' = [pc EXCEPT ![r] = "awaiting"]
    /\ UNCHANGED <<completion, llm_response, final_response, response, taken, uploadFailed>>
    /\ UNCHANGED procVars

\* A result whose token count is recomputed from its parts.
ResultRecomputed(api) ==
    [text |-> api.content,
     tokens |-> api.usage.prompt_tokens + api.usage.completion_tokens,
     model |-> api.model]

\* Lines 186-190: the result dict built from the API response.
Result(api) ==
    [text |-> api.content, tokens |-> api.usage.total_tokens, model |-> api.model]

\* Lines 194-208: the generation event logged for an API response.
GenerationEvent(id, message, api) ==
    [type |-> "generation-create",
     trace_id |-> id,
     name |-> "openai_api_call",
     model |-> api.model,
     input |-> message,
     output |-> Result(api).text,
     usage |-> [promptTokens |-> api.usage.prompt_tokens,
                completionTokens |-> api.usage.completion_tokens,
                totalTokens |-> api.usage.total_tokens],
     metadata |-> [temperature |-> TemperatureTenths, max_tokens |-> MaxTokens]]

\* Lines 169-212: the completion returns; call_openai builds its result, logs
\* the generation and returns the result to chat.
call_openai_return(r) ==
    /\ pc[r] = "awaiting"
    /\ \E api \in ApiResponses :
         /\ completion' = [completion EXCEPT ![r] = api]
         /\ Enqueue(GenerationEvent(trace_id[r], request[r].message, api))
         /\ llm_response' = [llm_response EXCEPT ![r] = Result(api)]
    /\ hist' = [hist EXCEPT ![r] = @ \o <<"return", "generation">>]
    /\ pc' = [pc EXCEPT ![r] = "process_response"]
    /\ UNCHANGED <<nextUuid, request, trace_id, final_response, response, taken, uploadFailed>>
    /\ UNCHANGED procVars

\* A handler that swallows the exception and carries on with an empty result.
call_openai_raise_swallowed(r) ==
    /\ pc[r] = "awaiting"
    /\ llm_response' = [llm_response EXCEPT ![r] = [text |-> "", tokens |-> 0, model |-> None]]
    /\ hist' = [hist EXCEPT ![r] = Append(@, "raise")]
    /\ pc' = [pc EXCEPT ![r] = "process_response"]
    /\ UNCHANGED <<nextUuid, request, trace_id, completion, final_response, response>>
    /\ UNCHANGED procVars
    /\ UNCHANGED sinkVars

\* Line 169 raising: neither call_openai nor chat catches, so the exception
\* leaves the handler and the framework answers 500.
call_openai_raise(r) ==
    /\ pc[r] = "awaiting"
    /\ response' = [response EXCEPT ![r] = [kind |-> "error", status_code |-> 500]]
    /\ hist' = [hist EXCEPT ![r] = @ \o <<"raise", "respond">>]
    /\ pc' = [pc EXCEPT ![r] = "Responded"]
    /\ UNCHANGED <<nextUuid, request, trace_id, completion, llm_response, final_response>>
    /\ UNCHANGED procVars
    /\ UNCHANGED sinkVars

\* A process_response that opens no span because the stage changes nothing.
process_response_span_skipped(r) ==
    /\ pc[r] = "process_response"
    /\ pc' = [pc EXCEPT ![r] = "span_end"]
    /\ UNCHANGED <<nextUuid, request, trace_id, completion, llm_response, final_response,
                   response, hist>>
    /\ UNCHANGED procVars
    /\ UNCHANGED sinkVars

\* Lines 119, 233-237: process_response opens its span.
process_response_span(r) ==
    /\ pc[r] = "process_response"
    /\ Enqueue([type |-> "span-create",
                trace_id |-> trace_id[r],
                name |-> "response_processing",
                input |-> llm_response[r],
                metadata |-> [step |-> "validation"]])
    /\ hist' = [hist EXCEPT ![r] = Append(@, "span")]
    /\ pc' = [pc EXCEPT ![r] = "span_end"]
    /\ UNCHANGED <<nextUuid, request, trace_id, completion, llm_response, final_response,
                   response, taken, uploadFailed>>
    /\ UNCHANGED procVars

\* Lines 243-247: the pass-through copy.
Processed(llm) ==
    [text |-> llm.text, tokens |-> llm.tokens, model |-> llm.model]

\* Lines 243-257: the copy is made, the span is ended with it, and it is
\* returned to chat.
process_response_end(r) ==
    /\ pc[r] = "span_end"
    /\ Enqueue([type |-> "span-update",
                trace_id |-> trace_id[r],
                name |-> "response_processing",
                output |-> Processed(llm_response[r]),
                metadata |-> [status |-> "passed"]])
    /\ final_response' = [final_response EXCEPT ![r] = Processed(llm_response[r])]
    /\ hist' = [hist EXCEPT ![r] = Append(@, "span_end")]
    /\ pc' = [pc EXCEPT ![r] = "trace_update"]
    /\ UNCHANGED <<nextUuid, request, trace_id, completion, llm_response, response,
                   taken, uploadFailed>>
    /\ UNCHANGED procVars

\* Lines 126-131: the trace is updated with the final result.
chat_update(r) ==
    /\ pc[r] = "trace_update"
    /\ Enqueue([type |-> "trace-update",
                trace_id |-> trace_id[r],
                output |-> [response |-> final_response[r].text,
                            tokens |-> final_response[r].tokens]])
    /\ hist' = [hist EXCEPT ![r] = Append(@, "trace_update")]
    /\ pc' = [pc EXCEPT ![r] = "flush"]
    /\ UNCHANGED <<nextUuid, request, trace_id, completion, llm_response, final_response,
                   response, taken, uploadFailed>>
    /\ UNCHANGED procVars

\* Lines 142-148: the ChatResponse.
ChatResponse(final, id) ==
    [kind |-> "ChatResponse",
     response |-> final.text,
     trace_id |-> id,
     trace_url |-> TraceUrl(id),
     tokens_used |-> final.tokens,
     model |-> final.model]

\* A handler that answers without waiting for the queue to drain.
chat_flush_nowait(r) ==
    /\ pc[r] = "flush"
    /\ response' = [response EXCEPT ![r] = ChatResponse(final_response[r], trace_id[r])]
    /\ hist' = [hist EXCEPT ![r] = @ \o <<"flush", "respond">>]
    /\ pc' = [pc EXCEPT ![r] = "Responded"]
    /\ UNCHANGED <<nextUuid, request, trace_id, completion, llm_response, final_response>>
    /\ UNCHANGED procVars
    /\ UNCHANGED sinkVars

\* A flush that raises into the handler when an upload has failed.
chat_flush_raising(r) ==
    /\ pc[r] = "flush"
    /\ queue = <<>>
    /\ response' = [response EXCEPT ![r] =
                        IF uploadFailed
                        THEN [kind |-> "error", status_code |-> 500]
                        ELSE ChatResponse(final_response[r], trace_id[r])]
    /\ hist' = [hist EXCEPT ![r] = @ \o <<"flush", "respond">>]
    /\ pc' = [pc EXCEPT ![r] = "Responded"]
    /\ UNCHANGED <<nextUuid, request, trace_id, completion, llm_response, final_response>>
    /\ UNCHANGED procVars
    /\ UNCHANGED sinkVars

\* Lines 134-148: langfuse.flush() returns once the queue has been drained;
\* the response is then built and returned.
chat_flush(r) ==
    /\ pc[r] = "flush"
    /\ queue = <<>>
    /\ response' = [response EXCEPT ![r] = ChatResponse(final_response[r], trace_id[r])]
    /\ hist' = [hist EXCEPT ![r] = @ \o <<"flush", "respond">>]
    /\ pc' = [pc EXCEPT ![r] = "Responded"]
    /\ UNCHANGED <<nextUuid, request, trace_id, completion, llm_response, final_response>>
    /\ UNCHANGED procVars
    /\ UNCHANGED sinkVars

Next ==
    \/ ModuleInit
    \/ Main
    \/ Consume
    \/ \E r \in Reqs : chat_begin(r)
    \/ \E r \in Reqs : call_openai_return(r)
    \/ \E r \in Reqs : call_openai_raise(r)
    \/ \E r \in Reqs : process_response_span(r)
    \/ \E r \in Reqs : process_response_end(r)
    \/ \E r \in Reqs : chat_update(r)
    \/ \E r \in Reqs : chat_flush(r)

Spec == Init /\ [][Next]_vars

\* ------------------------------------------------------------- helpers

Has(seq, e) == \E i \in 1..Len(seq) : seq[i] = e

\* Position of the first e in seq, 0 when there is none.
Idx(seq, e) ==
    IF Has(seq, e)
    THEN CHOOSE i \in 1..Len(seq) : seq[i] = e /\ \A j \in 1..(i - 1) : seq[j] # e
    ELSE 0

OfTrace(id, ev) == ev.trace_id = id

\* Every event logged under trace id, in the order the sink sees them: those
\* the consumer has taken, then those still queued.
Events(id) == taken[id] \o SelectSeq(queue, LAMBDA ev : OfTrace(id, ev))

Types(evs) == [i \in 1..Len(evs) |-> evs[i].type]

\* The event each recorder step of a handler logs.
RecorderSteps == {"trace", "generation", "span", "span_end", "trace_update"}

EventType(step) ==
    CASE step = "trace" -> "trace-create"
      [] step = "generation" -> "generation-create"
      [] step = "span" -> "span-create"
      [] step = "span_end" -> "span-update"
      [] step = "trace_update" -> "trace-update"

\* The event types handler r has logged, in the order it logged them.
Logged(r) ==
    LET steps == SelectSeq(hist[r], LAMBDA h : h \in RecorderSteps)
    IN  [i \in 1..Len(steps) |-> EventType(steps[i])]

Started(r) == pc[r] # "idle"
InferenceFailed(r) == Has(hist[r], "raise")
InferenceReturned(r) == Has(hist[r], "return")
Responded(r) == pc[r] = "Responded"
Succeeded(r) == Responded(r) /\ InferenceReturned(r)

Marked(ev, field, value) == field \in DOMAIN ev /\ ev[field] = value

\* The reported total differs from the sum of the reported parts.
Mismatch(api) ==
    api.usage.total_tokens # api.usage.prompt_tokens + api.usage.completion_tokens

SuccessTypes ==
    <<"trace-create", "generation-create", "span-create", "span-update", "trace-update">>

\* -------------------------------------------------------------- claims

\* C1: a request whose inference call failed has, by the time it is answered,
\* its trace finalized with status error and flushed to the sink.
C1_FailedTraceFinalizedAndFlushed ==
    \A r \in Reqs :
        (Responded(r) /\ InferenceFailed(r)) =>
            /\ \E i \in 1..Len(Events(trace_id[r])) :
                 /\ Events(trace_id[r])[i].type = "trace-update"
                 /\ Marked(Events(trace_id[r])[i], "status", "error")
            /\ Has(hist[r], "flush")
            /\ Idx(hist[r], "flush") < Idx(hist[r], "respond")

\* C2: a request whose inference call failed has a generation under its
\* trace, ended with status error.
C2_FailedGenerationEndedWithError ==
    \A r \in Reqs :
        (Responded(r) /\ InferenceFailed(r)) =>
            \E i \in 1..Len(Events(trace_id[r])) :
                /\ Events(trace_id[r])[i].type = "generation-create"
                /\ Marked(Events(trace_id[r])[i], "status", "error")

\* C3: once the inference call of a request has failed, the request is
\* answered with a failure response, post-processing has not run and no
\* response_processing span exists under its trace.
C3_FailureShortCircuits ==
    \A r \in Reqs :
        InferenceFailed(r) =>
            /\ Responded(r)
            /\ response[r].kind = "error"
            /\ ~Has(hist[r], "span")
            /\ ~Has(hist[r], "span_end")
            /\ \A i \in 1..Len(Events(trace_id[r])) :
                 Events(trace_id[r])[i].type \notin {"span-create", "span-update"}

C3_Witness ==
    \E r \in Reqs :
        /\ InferenceFailed(r)
        /\ Responded(r)
        /\ Types(Events(trace_id[r])) = <<"trace-create">>

\* C4: once the trace of a request whose inference call returned is
\* finalized, its trace holds exactly one generation and one post-processing
\* span, the generation logged before the span, both after the trace was
\* opened and before it was finalized.
C4_OneGenerationThenOneSpan ==
    \A r \in Reqs :
        (InferenceReturned(r) /\ pc[r] \in {"flush", "Responded"}) =>
            LET evs == Events(trace_id[r])
            IN  /\ Types(evs) = SuccessTypes
                /\ evs[2].name = "openai_api_call"
                /\ evs[3].name = "response_processing"
                /\ evs[4].name = "response_processing"

C4_Witness ==
    \E r \in Reqs :
        /\ Succeeded(r)
        /\ response[r].kind = "ChatResponse"
        /\ Types(Events(trace_id[r])) = SuccessTypes

\* C5: a successful request is answered only after its trace was finalized
\* with the post-processed output and flush has returned with every event of
\* the trace taken by the sink; the response's text and tokens_used are the
\* finalized trace's output and its trace_id is the id of the trace opened
\* for this request.
C5_FinalizeFlushRespond ==
    \A r \in Reqs :
        Succeeded(r) =>
            LET id == trace_id[r]
                fin == taken[id][Len(taken[id])]
            IN  /\ Len(taken[id]) = Len(SuccessTypes)
                /\ SelectSeq(queue, LAMBDA ev : OfTrace(id, ev)) = <<>>
                /\ fin.type = "trace-update"
                /\ fin.output.response = final_response[r].text
                /\ fin.output.tokens = final_response[r].tokens
                /\ Idx(hist[r], "trace_update") < Idx(hist[r], "flush")
                /\ Idx(hist[r], "flush") < Idx(hist[r], "respond")
                /\ response[r].kind = "ChatResponse"
                /\ response[r].response = fin.output.response
                /\ response[r].tokens_used = fin.output.tokens
                /\ response[r].trace_id = taken[id][1].trace_id
                /\ taken[id][1].type = "trace-create"
                /\ taken[id][1].input.message = request[r].message
                /\ taken[id][1].user_id = request[r].user_id

C5_Witness ==
    \E r \in Reqs :
        /\ Succeeded(r)
        /\ response[r].kind = "ChatResponse"
        /\ response[r].tokens_used = 35
        /\ \E q \in Reqs : q # r /\ pc[q] \in {"span_end", "trace_update", "flush"}

C7_MissingKeysReported ==
    /\ (missing # {} /\ proc \notin {"import", "main"}) =>
          /\ exitCode > 0
          /\ printed = missing
    /\ listening => missing = {}

\* C8: a request whose inference call returned is answered with the success
\* response built from that call's result, whether or not an upload to the
\* sink has failed; only a failed inference call is answered with an
\* error.
C8_UploadFailureContained ==
    \A r \in Reqs :
        Responded(r) =>
            IF InferenceReturned(r)
            THEN /\ response[r].kind = "ChatResponse"
                 /\ response[r] = ChatResponse(Result(completion[r]), trace_id[r])
            ELSE InferenceFailed(r)

\* The only request so far was answered with success although an upload of
\* one of its events had failed.
C8_Witness ==
    \E r \in Reqs :
        /\ Succeeded(r)
        /\ \A q \in Reqs : q # r => ~Started(q)
        /\ uploadFailed
        /\ response[r].kind = "ChatResponse"

\* C9: the generation is begun before the inference call is issued and ended
\* only after the call returns.
C9_GenerationBracketsCall ==
    \A r \in Reqs :
        Has(hist[r], "call") =>
            /\ Has(hist[r], "generation")
            /\ Idx(hist[r], "generation") < Idx(hist[r], "call")

\* C10: under every interleaving of the handlers, the events found under a
\* trace id in the sink (taken or still queued) are exactly the events the
\* one handler owning that id has logged, none lost, in the order it logged
\* them; no two handlers share a trace id and no event sits under an id no
\* handler owns.
C10_PerTraceOrderNoLoss ==
    /\ \A r \in Reqs :
         Started(r) =>
            /\ trace_id[r] \in TraceIds
            /\ Types(Events(trace_id[r])) = Logged(r)
            /\ \A i \in 1..Len(taken[trace_id[r]]) : taken[trace_id[r]][i].trace_id = trace_id[r]
            /\ Events(trace_id[r])[1].input.message = request[r].message
    /\ \A r, q \in Reqs : (Started(r) /\ Started(q) /\ r # q) => trace_id[r] # trace_id[q]
    /\ \A id \in TraceIds : (\A r \in Reqs : trace_id[r] # id) => Events(id) = <<>>
    /\ \A i \in 1..Len(queue) : \E r \in Reqs : Started(r) /\ queue[i].trace_id = trace_id[r]

C10_Witness ==
    /\ Len(queue) >= 2
    /\ queue[1].trace_id # queue[2].trace_id
    /\ \A r \in Reqs : Started(r) /\ taken[trace_id[r]] # <<>> /\ ~Responded(r)

====
